---------------------------- MODULE Spec2Model ----------------------------
(***************************************************************************)
(* Cafe directory service (src/main.py): one SQLite table `cafe` behind a  *)
(* Flask application served by app.run, which handles every request in a   *)
(* thread of its own.  The table is the only persistent state.             *)
(*                                                                         *)
(* /all, /search and /add issue one statement each and are one step.       *)
(* /update-price and /report-closed first run the primary-key SELECT of    *)
(* get_or_404, which leaves no transaction or lock behind, and later flush *)
(* and COMMIT under SQLite's write lock: they are two steps, and steps of  *)
(* other requests fall between them.                                       *)
(*                                                                         *)
(* Values.  A Python value that may be None (request.args.get,             *)
(* request.form.get, a nullable column) is an option: <<>> is None/NULL    *)
(* and <<s>> is the string s.  Strings are compared for equality as        *)
(* strings and ordered by their UTF-8 bytes (SQLite's BINARY collation).   *)
(***************************************************************************)
EXTENDS Integers, Sequences, FiniteSets, Bags, TLC

VARIABLES
    table,     \* the rows of table cafe (database representation)
    inflight,  \* bag of requests between their get_or_404 and their commit
    req,       \* the request answered last
    resp,      \* the response to req
    before,    \* the table just before the step that answered req
    present,   \* whether req's id named a row when req began
    log,       \* bag of [req, resp] of the add/patch/delete requests answered
    logging    \* whether log holds every such request answered since Init

vars == <<table, inflight, req, resp, before, present, log, logging>>

----------------------------------------------------------------------------
(* Bounds of the model *)

MaxId == 2
MaxInFlight == 2
MaxLog == 3

Ids == 1..MaxId

----------------------------------------------------------------------------
(* Values *)

None == <<>>
Some(s) == <<s>>

\* variant: a form field counts as true whenever its key is present
PyBool_Presence(v) == v # None

\* bool(x) of an optional string: None and "" are falsy, everything else truthy
PyBool(v) == v # None /\ v[1] # ""

\* UTF-8 bytes of the strings used as names
Utf8(s) ==
    CASE s = "Joe's" -> <<74, 111, 101, 39, 115>>
      [] s = "joe"   -> <<106, 111, 101>>

\* memcmp order on byte strings; a proper prefix sorts first
RECURSIVE BytesLess(_, _)
BytesLess(a, b) ==
    IF b = <<>> THEN FALSE
    ELSE IF a = <<>> THEN TRUE
    ELSE IF Head(a) # Head(b) THEN Head(a) < Head(b)
    ELSE BytesLess(Tail(a), Tail(b))

\* ORDER BY cafe.name: both names are NOT NULL
NameLess(r1, r2) == BytesLess(Utf8(r1.name[1]), Utf8(r2.name[1]))

----------------------------------------------------------------------------
(* The Cafe model and its table *)

ApiKey == "TopSecretAPIKey"

\* Boolean column, bind side: True -> 1, False -> 0
BoolToDb(b) == IF b THEN 1 ELSE 0

\* Boolean column, result side
DbToBool(i) == i # 0

\* a Cafe object as the row the INSERT writes (id assigned by the store)
CafeToRow(c, id) ==
    [id |-> id, name |-> c.name, map_url |-> c.map_url, img_url |-> c.img_url,
     location |-> c.location, seats |-> c.seats,
     has_toilet |-> BoolToDb(c.has_toilet), has_wifi |-> BoolToDb(c.has_wifi),
     has_sockets |-> BoolToDb(c.has_sockets),
     can_take_calls |-> BoolToDb(c.can_take_calls),
     coffee_price |-> c.coffee_price]

\* a row loaded as a Cafe object
RowToCafe(r) ==
    [id |-> r.id, name |-> r.name, map_url |-> r.map_url, img_url |-> r.img_url,
     location |-> r.location, seats |-> r.seats,
     has_toilet |-> DbToBool(r.has_toilet), has_wifi |-> DbToBool(r.has_wifi),
     has_sockets |-> DbToBool(r.has_sockets),
     can_take_calls |-> DbToBool(r.can_take_calls),
     coffee_price |-> r.coffee_price]

\* Cafe.to_dict: one key per column, the attribute's value
to_dict(c) ==
    [id |-> c.id, name |-> c.name, map_url |-> c.map_url, img_url |-> c.img_url,
     location |-> c.location, seats |-> c.seats,
     has_toilet |-> c.has_toilet, has_wifi |-> c.has_wifi,
     has_sockets |-> c.has_sockets, can_take_calls |-> c.can_take_calls,
     coffee_price |-> c.coffee_price]

\* the Cafe(...) constructor call of post_new_cafe, from the form
NewCafe(form) ==
    [name |-> form.name, map_url |-> form.map_url, img_url |-> form.img_url,
     location |-> form.loc,
     has_sockets |-> PyBool(form.sockets), has_toilet |-> PyBool(form.toilet),
     has_wifi |-> PyBool(form.wifi), can_take_calls |-> PyBool(form.calls),
     seats |-> form.seats, coffee_price |-> form.coffee_price]

----------------------------------------------------------------------------
(* The store: SQLite statements on table cafe *)

\* INTEGER PRIMARY KEY without AUTOINCREMENT: one more than the largest rowid
NextRowid(t) ==
    IF t = {} THEN 1
    ELSE (CHOOSE m \in {r.id : r \in t} : \A r \in t : r.id <= m) + 1

\* nullable=False columns in table order; the first NULL one fails the INSERT
NotNullColumns == <<"name", "map_url", "img_url", "location", "seats">>

NullColumns(c) == {i \in 1..Len(NotNullColumns) : c[NotNullColumns[i]] = None}

FirstNullColumn(c) ==
    NotNullColumns[CHOOSE i \in NullColumns(c) : \A j \in NullColumns(c) : i <= j]

\* variant: column name declared without unique=True
InsertCafe_NoUnique(t, c) ==
    IF NullColumns(c) # {}
    THEN [ok |-> FALSE, table |-> t,
          error |-> <<"NOT NULL constraint failed", FirstNullColumn(c)>>]
    ELSE [ok |-> TRUE, table |-> t \cup {CafeToRow(c, NextRowid(t))},
          error |-> <<>>]

\* INSERT INTO cafe ...; COMMIT.  [ok, error, table]
InsertCafe(t, c) ==
    IF NullColumns(c) # {}
    THEN [ok |-> FALSE, table |-> t,
          error |-> <<"NOT NULL constraint failed", FirstNullColumn(c)>>]
    ELSE IF \E r \in t : r.name = c.name
    THEN [ok |-> FALSE, table |-> t,
          error |-> <<"UNIQUE constraint failed", "name">>]
    ELSE [ok |-> TRUE, table |-> t \cup {CafeToRow(c, NextRowid(t))},
          error |-> <<>>]

\* session.get(Cafe, id): the rows SELECT ... WHERE cafe.id = ? returns
SelectById(t, id) == {r \in t : r.id = id}

\* UPDATE cafe SET coffee_price = ? WHERE cafe.id = ?.  [rowcount, table]
UpdatePrice(t, id, price) ==
    [rowcount |-> Cardinality(SelectById(t, id)),
     table |-> {IF r.id = id THEN [r EXCEPT !.coffee_price = price] ELSE r : r \in t}]

\* DELETE FROM cafe WHERE cafe.id = ?.  [rowcount, table]
DeleteById(t, id) ==
    [rowcount |-> Cardinality(SelectById(t, id)),
     table |-> {r \in t : r.id # id}]

\* SELECT ... WHERE cafe.location = ? (IS NULL for None): table scan in rowid order
RECURSIVE ByRowid(_)
ByRowid(rows) ==
    IF rows = {} THEN <<>>
    ELSE LET r == CHOOSE x \in rows : \A y \in rows : x.id <= y.id
         IN <<r>> \o ByRowid(rows \ {r})

\* variant: the comparison ignores letter case (COLLATE NOCASE)
Lower(v) == IF v = Some("Springfield") THEN Some("springfield") ELSE v

SelectByLocation_NoCase(t, loc) ==
    ByRowid({r \in t : Lower(r.location) = Lower(loc)})

SelectByLocation(t, loc) == ByRowid({r \in t : r.location = loc})

\* SELECT ... ORDER BY cafe.name
RECURSIVE ByName(_)
ByName(rows) ==
    IF rows = {} THEN <<>>
    ELSE LET r == CHOOSE x \in rows : \A y \in rows : ~NameLess(y, x)
         IN <<r>> \o ByName(rows \ {r})

\* variant: the select without order_by
SelectOrderByName_Unordered(t) == ByRowid(t)

SelectOrderByName(t) == ByName(t)

----------------------------------------------------------------------------
(* Responses *)

NoException == <<>>

\* jsonify(...) with a status code
Json(status, body) == [status |-> status, body |-> body, exc |-> NoException]

\* jsonify(response={"success": msg})
SuccessBody(msg) == [response |-> [success |-> msg]]

\* jsonify(error={category: msg})
ErrorBody(category, msg) == [error |-> (category :> msg)]

\* jsonify(cafes=[cafe.to_dict() for cafe in all_cafes])
CafesBody(rows) == [cafes |-> [i \in 1..Len(rows) |-> to_dict(RowToCafe(rows[i]))]]

\* the else branches written after get_or_404
IdNotFoundJson ==
    Json(404, ErrorBody("Not Found",
                        "Sorry a cafe with that id was not found in the database."))

\* get_or_404 on a missing row: abort(404), rendered by Flask as its HTML page
Abort404 == [status |-> 404, body |-> [html |-> "404 Not Found"], exc |-> NoException]

\* an exception that leaves the view function: Flask answers 500
Unhandled(exc) ==
    [status |-> 500, body |-> [html |-> "500 Internal Server Error"], exc |-> exc]

LocationNotFound ==
    Json(404, ErrorBody("Not Found", "Sorry, we don't have a cafe at that location."))

Forbidden ==
    Json(403, ErrorBody("Forbidden",
                        "Sorry, that's not allowed. Make sure you have the correct api_key."))

----------------------------------------------------------------------------
(* The view functions, as the steps the store serializes *)

\* db.get_or_404(Cafe, cafe_id): the object, or abort(404) when no row has the key
get_or_404(t, cafe_id) ==
    LET found == SelectById(t, cafe_id)
    IN IF found = {} THEN [abort |-> TRUE]
       ELSE [abort |-> FALSE, cafe |-> RowToCafe(CHOOSE r \in found : TRUE)]

\* `if cafe:` on a Cafe instance: the class defines neither __bool__ nor __len__
Truthy(cafe) == TRUE

\* db.session.commit() after cafe.coffee_price = new_price: an UPDATE is flushed
\* only when the attribute changed; it must match exactly one row
CommitPrice(t, cafe, new_price) ==
    IF new_price = cafe.coffee_price
    THEN [table |-> t,
          resp |-> Json(200, SuccessBody("Successfully updated the price."))]
    ELSE LET u == UpdatePrice(t, cafe.id, new_price)
         IN IF u.rowcount = 1
            THEN [table |-> u.table,
                  resp |-> Json(200, SuccessBody("Successfully updated the price."))]
            ELSE [table |-> t, resp |-> Unhandled(<<"StaleDataError">>)]

\* variant: session.delete without the commit
CommitDelete_NoCommit(t, cafe) ==
    [table |-> t,
     resp |-> Json(200, SuccessBody("Successfully deleted the cafe from the database."))]

\* db.session.delete(cafe); db.session.commit(): a DELETE that matches no row
\* only warns
CommitDelete(t, cafe) ==
    [table |-> DeleteById(t, cafe.id).table,
     resp |-> Json(200, SuccessBody("Successfully deleted the cafe from the database."))]

get_all_cafes(t) ==
    [table |-> t, resp |-> Json(200, CafesBody(SelectOrderByName(t)))]

get_cafe_at_location(t, query_location) ==
    LET all_cafes == SelectByLocation(t, query_location)
    IN IF all_cafes # <<>>
       THEN [table |-> t, resp |-> Json(200, CafesBody(all_cafes))]
       ELSE [table |-> t, resp |-> LocationNotFound]

post_new_cafe(t, form) ==
    LET ins == InsertCafe(t, NewCafe(form))
    IN IF ins.ok
       THEN [table |-> ins.table,
             resp |-> Json(200, SuccessBody("Successfully added the new cafe."))]
       ELSE [table |-> t, resp |-> Unhandled(<<"IntegrityError">> \o ins.error)]

\* variant: db.session.get in place of get_or_404, the result used unchecked
patch_begin_Unchecked(t, cafe_id) ==
    LET found == SelectById(t, cafe_id)
    IN IF found = {}
       THEN [done |-> TRUE, resp |-> Unhandled(<<"AttributeError">>)]
       ELSE [done |-> FALSE, cafe |-> RowToCafe(CHOOSE r \in found : TRUE)]

\* patch_new_price up to and including get_or_404: answered, or holding the object
patch_begin(t, cafe_id) ==
    LET got == get_or_404(t, cafe_id)
    IN IF got.abort THEN [done |-> TRUE, resp |-> Abort404]
       ELSE [done |-> FALSE, cafe |-> got.cafe]

\* patch_new_price from `if cafe:` to its return
patch_end(t, cafe, new_price) ==
    IF Truthy(cafe) THEN CommitPrice(t, cafe, new_price)
    ELSE [table |-> t, resp |-> IdNotFoundJson]

\* variant: the row is looked up before the key is compared
delete_begin_LookupFirst(t, cafe_id, api_key) ==
    LET got == get_or_404(t, cafe_id)
    IN IF got.abort THEN [done |-> TRUE, resp |-> Abort404]
       ELSE IF api_key = Some(ApiKey) THEN [done |-> FALSE, cafe |-> got.cafe]
       ELSE [done |-> TRUE, resp |-> Forbidden]

\* delete_cafe up to and including get_or_404: answered, or holding the object
delete_begin(t, cafe_id, api_key) ==
    IF api_key = Some(ApiKey)
    THEN LET got == get_or_404(t, cafe_id)
         IN IF got.abort THEN [done |-> TRUE, resp |-> Abort404]
            ELSE [done |-> FALSE, cafe |-> got.cafe]
    ELSE [done |-> TRUE, resp |-> Forbidden]

\* delete_cafe from `if cafe:` to its return
delete_end(t, cafe) ==
    IF Truthy(cafe) THEN CommitDelete(t, cafe)
    ELSE [table |-> t, resp |-> IdNotFoundJson]

\* patch_new_price run with no other request's step in between
patch_new_price(t, cafe_id, new_price) ==
    LET b == patch_begin(t, cafe_id)
    IN IF b.done THEN [table |-> t, resp |-> b.resp]
       ELSE patch_end(t, b.cafe, new_price)

\* delete_cafe run with no other request's step in between
delete_cafe(t, cafe_id, api_key) ==
    LET b == delete_begin(t, cafe_id, api_key)
    IN IF b.done THEN [table |-> t, resp |-> b.resp]
       ELSE delete_end(t, b.cafe)

----------------------------------------------------------------------------
(* Request inputs *)

Names == {"Joe's", "joe"}

\* the non-name fields of a well-formed /add form
Details ==
    { [loc |-> Some("Springfield"), coffee_price |-> None,
       sockets |-> Some("1"), toilet |-> None, wifi |-> None, calls |-> None],
      [loc |-> Some(""), coffee_price |-> Some("2.50"),
       sockets |-> Some(""), toilet |-> Some("false"), wifi |-> Some("0"),
       calls |-> Some("yes")] }

Form(name, map_url, img_url, seats, d) ==
    [name |-> name, map_url |-> map_url, img_url |-> img_url, loc |-> d.loc,
     seats |-> seats, coffee_price |-> d.coffee_price, sockets |-> d.sockets,
     toilet |-> d.toilet, wifi |-> d.wifi, calls |-> d.calls]

CompleteForms ==
    {Form(Some(n), Some("http://x"), Some("http://y"), Some("10"), d) :
        n \in Names, d \in Details}

\* forms that lack required fields
PartialForms ==
    LET d == CHOOSE x \in Details : x.coffee_price = None
    IN { Form(None, Some("http://x"), Some("http://y"), Some("10"), d),
         Form(Some("joe"), None, Some("http://y"), Some("10"), d),
         Form(Some("joe"), Some("http://x"), None, None, d) }

Forms == CompleteForms \cup PartialForms

SearchLocs == {None, Some(""), Some("Springfield"), Some("springfield")}

Prices == {Some("2.50")}

Keys == {None, Some(ApiKey), Some("topsecretapikey")}

----------------------------------------------------------------------------
(* The server: app.run answers every request in a thread of its own *)

NoRequest == [op |-> "none"]

Mutation(r) == r.op \in {"add", "patch", "delete"}

\* while the log is kept, at most MaxLog add, update-price and report-closed
\* requests are received
Receivable ==
    logging => BagCardinality(log) + BagCardinality(inflight) < MaxLog

\* the log after r is answered with a
Logged(r, a) ==
    IF logging /\ Mutation(r) THEN log (+) SetToBag({[req |-> r, resp |-> a]})
    ELSE log

\* request r is answered by this step
Answer(r, out, had) ==
    /\ req' = r
    /\ resp' = out.resp
    /\ before' = table
    /\ table' = out.table
    /\ present' = had
    /\ log' = Logged(r, out.resp)
    /\ UNCHANGED logging

\* the attributes of the loaded object that the rest of its handler reads: the
\* primary key of the UPDATE's and the DELETE's WHERE clause, and the loaded
\* coffee_price the assignment is compared with
Loaded(cafe) == [id |-> cafe.id, coffee_price |-> cafe.coffee_price]

\* request r has its object and waits for its commit
Hold(r, cafe) ==
    /\ BagCardinality(inflight) < MaxInFlight
    /\ inflight' = inflight (+) SetToBag({[req |-> r, cafe |-> Loaded(cafe)]})
    /\ UNCHANGED <<table, req, resp, before, present, log, logging>>

GetAll ==
    /\ Answer([op |-> "all"], get_all_cafes(table), FALSE)
    /\ UNCHANGED inflight

Search ==
    /\ \E loc \in SearchLocs :
         Answer([op |-> "search", loc |-> loc], get_cafe_at_location(table, loc), FALSE)
    /\ UNCHANGED inflight

\* the bound on ids stops only an insert that would succeed
InBounds(t, out) ==
    out.table # t => NextRowid(t) <= MaxId

Add ==
    /\ Receivable
    /\ \E form \in Forms :
         /\ InBounds(table, post_new_cafe(table, form))
         /\ Answer([op |-> "add", form |-> form], post_new_cafe(table, form), FALSE)
    /\ UNCHANGED inflight

PatchBegin ==
    /\ Receivable
    /\ \E id \in Ids, p \in Prices :
         LET r == [op |-> "patch", id |-> id, new_price |-> p]
             b == patch_begin(table, id)
         IN IF b.done
            THEN /\ Answer(r, [table |-> table, resp |-> b.resp], FALSE)
                 /\ UNCHANGED inflight
            ELSE Hold(r, b.cafe)

PatchEnd ==
    \E e \in BagToSet(inflight) :
        /\ e.req.op = "patch"
        /\ Answer(e.req, patch_end(table, e.cafe, e.req.new_price), TRUE)
        /\ inflight' = inflight (-) SetToBag({e})

DeleteBegin ==
    /\ Receivable
    /\ \E id \in Ids, k \in Keys :
         LET r == [op |-> "delete", id |-> id, api_key |-> k]
             b == delete_begin(table, id, k)
         IN IF b.done
            THEN /\ Answer(r, [table |-> table, resp |-> b.resp],
                           SelectById(table, id) # {})
                 /\ UNCHANGED inflight
            ELSE Hold(r, b.cafe)

DeleteEnd ==
    \E e \in BagToSet(inflight) :
        /\ e.req.op = "delete"
        /\ Answer(e.req, delete_end(table, e.cafe), TRUE)
        /\ inflight' = inflight (-) SetToBag({e})

Start ==
    /\ table = {}
    /\ inflight = EmptyBag
    /\ req = NoRequest
    /\ resp = Json(200, [html |-> "index.html"])
    /\ before = {}
    /\ present = FALSE
    /\ log = EmptyBag

Init == Start /\ logging = FALSE

Next ==
    \/ GetAll
    \/ Search
    \/ Add
    \/ PatchBegin
    \/ PatchEnd
    \/ DeleteBegin
    \/ DeleteEnd

Spec == Init /\ [][Next]_vars

\* the same server, its first requests logged
InitLog == Start /\ logging = TRUE

SpecLog == InitLog /\ [][Next]_vars

\* a request run as one uninterrupted step
Handle(t, r) ==
    CASE r.op = "add" -> post_new_cafe(t, r.form)
      [] r.op = "patch" -> patch_new_price(t, r.id, r.new_price)
      [] r.op = "delete" -> delete_cafe(t, r.id, r.api_key)

\* the [table, log] outcomes of the serial executions from t of the requests in bag b
RECURSIVE SerialOutcomes(_, _)
SerialOutcomes(t, b) ==
    IF b = EmptyBag THEN {[table |-> t, log |-> EmptyBag]}
    ELSE UNION { LET o == Handle(t, r)
                 IN {[table |-> x.table,
                      log |-> x.log (+) SetToBag({[req |-> r, resp |-> o.resp]})] :
                        x \in SerialOutcomes(o.table, b (-) SetToBag({r}))}
                 : r \in BagToSet(b) }

\* the requests of the log
Requests(l) ==
    LET rs == {e.req : e \in BagToSet(l)}
    IN [r \in rs |-> BagCardinality([e \in {x \in BagToSet(l) : x.req = r} |-> l[e]])]

----------------------------------------------------------------------------
(* Claims *)

IdsOf(t) == {r.id : r \in t}

Range(f) == {f[i] : i \in DOMAIN f}

\* the JSON object a stored row is expected to serialize to
Serialized(r) ==
    [id |-> r.id, name |-> r.name, map_url |-> r.map_url, img_url |-> r.img_url,
     location |-> r.location, seats |-> r.seats,
     has_toilet |-> (r.has_toilet = 1), has_wifi |-> (r.has_wifi = 1),
     has_sockets |-> (r.has_sockets = 1), can_take_calls |-> (r.can_take_calls = 1),
     coffee_price |-> r.coffee_price]

Expect(status, body) == [status |-> status, body |-> body, exc |-> <<>>]

ExpectForbidden ==
    Expect(403, [error |-> ("Forbidden" :>
        "Sorry, that's not allowed. Make sure you have the correct api_key.")])

ExpectIdNotFound ==
    Expect(404, [error |-> ("Not Found" :>
        "Sorry a cafe with that id was not found in the database.")])

ExpectLocationNotFound ==
    Expect(404, [error |-> ("Not Found" :>
        "Sorry, we don't have a cafe at that location.")])

ExpectDeleted ==
    Expect(200, [response |->
        [success |-> "Successfully deleted the cafe from the database."]])

ExpectUpdated ==
    Expect(200, [response |-> [success |-> "Successfully updated the price."]])

ExpectAdded ==
    Expect(200, [response |-> [success |-> "Successfully added the new cafe."]])

\* the request answered last looked its id up
Lookup ==
    /\ req.op \in {"patch", "delete"}
    /\ req.op = "delete" => req.api_key = <<"TopSecretAPIKey">>

\* C1: a report-closed request whose api-key is absent or differs from the secret
\* is answered with the fixed 403 body and leaves the table as it was, whether or
\* not a row with the id exists.
C1_ForbiddenHidesExistence ==
    (req.op = "delete" /\ req.api_key # <<"TopSecretAPIKey">>) =>
        /\ resp = ExpectForbidden
        /\ table = before

C1_Witness ==
    /\ req.op = "delete"
    /\ req.api_key = <<"topsecretapikey">>
    /\ req.id \in IdsOf(before)
    /\ present
    /\ resp.status = 403

\* C2: report-closed with the secret on an id that was in the table when the
\* request looked it up answers 200 success; its commit leaves no row with that
\* id and changes no other row, and a following update-price or report-closed of
\* the id is answered 404.
C2_DeleteRemovesRow ==
    (req.op = "delete" /\ req.api_key = <<"TopSecretAPIKey">> /\ present) =>
        /\ resp = ExpectDeleted
        /\ table = {r \in before : r.id # req.id}
        /\ \A p \in Prices : patch_new_price(table, req.id, p).resp.status = 404
        /\ delete_cafe(table, req.id, <<"TopSecretAPIKey">>).resp.status = 404

C2_Witness ==
    /\ req.op = "delete"
    /\ req.api_key = <<"TopSecretAPIKey">>
    /\ present
    /\ req.id \in IdsOf(before)
    /\ Cardinality(before) = 2
    /\ Cardinality(table) = 1
    /\ resp.status = 200

\* C3: update-price with new_price=P on an id that was in the table when the
\* request looked it up answers 200 success and sets that row's coffee_price to
\* the string P; the row's other fields and all other rows stay as they were.
C3_PatchSetsPriceOnly ==
    (req.op = "patch" /\ req.new_price # <<>> /\ present) =>
        /\ resp = ExpectUpdated
        /\ table = {IF r.id = req.id THEN [r EXCEPT !.coffee_price = req.new_price]
                    ELSE r : r \in before}
        /\ \E r \in table : r.id = req.id /\ r.coffee_price = req.new_price

\* C4: update-price, and report-closed with the secret, on an id that is not in
\* the table answer status 404 and leave the table as it was.
C4_MissIs404 ==
    (Lookup /\ ~present) => resp.status = 404 /\ table = before

C4_Witness ==
    /\ Lookup
    /\ ~present
    /\ req.op = "patch"
    /\ before # {}
    /\ resp.status = 404

\* C5: when an id lookup misses, the response is the JSON object
\* {"error": {"Not Found": "Sorry a cafe with that id was not found in the
\* database."}} with status 404, for both endpoints.
C5_MissBodyIsJson ==
    (Lookup /\ ~present) => resp = ExpectIdNotFound

\* C6: /search answers 200 with exactly the rows whose location equals loc when
\* there is one, and 404 with the fixed body when there is none (always so when
\* loc is missing); the table stays as it was.
C6_SearchExact ==
    req.op = "search" =>
        LET hits == {r \in before : r.location = req.loc}
        IN /\ table = before
           /\ hits # {} =>
                /\ resp.status = 200
                /\ DOMAIN resp.body = {"cafes"}
                /\ Range(resp.body.cafes) = {Serialized(r) : r \in hits}
                /\ Len(resp.body.cafes) = Cardinality(hits)
           /\ hits = {} => resp = ExpectLocationNotFound
           /\ req.loc = <<>> => resp = ExpectLocationNotFound

C6_Witness ==
    /\ req.op = "search"
    /\ req.loc = <<"Springfield">>
    /\ resp.status = 200
    /\ Len(resp.body.cafes) = 1
    /\ Cardinality(before) = 2

\* C7: /all answers 200 with every row of the table exactly once, in
\* non-decreasing order of name; an empty table gives an empty list.
C7_AllSortedByName ==
    req.op = "all" =>
        /\ table = before
        /\ resp.status = 200
        /\ DOMAIN resp.body = {"cafes"}
        /\ Range(resp.body.cafes) = {Serialized(r) : r \in before}
        /\ Len(resp.body.cafes) = Cardinality(before)
        /\ \A i, j \in 1..Len(resp.body.cafes) :
              i < j => ~BytesLess(Utf8(resp.body.cafes[j].name[1]),
                                  Utf8(resp.body.cafes[i].name[1]))

C7_Witness ==
    /\ req.op = "all"
    /\ Len(resp.body.cafes) = 2
    /\ resp.body.cafes[1].id > resp.body.cafes[2].id

\* the new row's JSON object carries the submitted values
Submitted(d, form) ==
    /\ d.name = form.name
    /\ d.map_url = form.map_url
    /\ d.img_url = form.img_url
    /\ d.location = form.loc
    /\ d.seats = form.seats
    /\ d.coffee_price = form.coffee_price
    /\ d.has_sockets = (form.sockets # <<>> /\ form.sockets # <<"">>)
    /\ d.has_toilet = (form.toilet # <<>> /\ form.toilet # <<"">>)
    /\ d.has_wifi = (form.wifi # <<>> /\ form.wifi # <<"">>)
    /\ d.can_take_calls = (form.calls # <<>> /\ form.calls # <<"">>)

\* C8: after a successful /add, /all and /search return one new object whose
\* fields other than id equal the submitted values, a boolean being true exactly
\* when its form field was present and non-empty.
C8_AddRoundTrip ==
    (req.op = "add" /\ resp.status = 200) =>
        LET listed == Range(get_all_cafes(table).resp.body.cafes)
            found == Range(get_cafe_at_location(table, req.form.loc).resp.body.cafes)
            new == {d \in listed : d.id \notin IdsOf(before)}
        IN /\ resp = ExpectAdded
           /\ Cardinality(new) = 1
           /\ \A d \in new : Submitted(d, req.form) /\ d \in found
           /\ listed \ new = {Serialized(r) : r \in before}

C8_Witness ==
    /\ req.op = "add"
    /\ resp.status = 200
    /\ req.form.sockets = <<"">>
    /\ req.form.toilet = <<"false">>
    /\ before # {}

\* no two rows share an id and no two rows share a name
UniqueRows ==
    \A r1, r2 \in table : (r1.id = r2.id \/ r1.name = r2.name) => r1 = r2

\* the request answered last was an /add whose name was in the table
AddOfTakenName ==
    /\ req.op = "add"
    /\ \E r \in before : r.name = req.form.name

FormComplete(form) ==
    /\ form.name # <<>>
    /\ form.map_url # <<>>
    /\ form.img_url # <<>>
    /\ form.loc # <<>>
    /\ form.seats # <<>>

\* C9 as stated: in every interleaving ids and names stay unique, and an /add
\* whose name is already in the table fails with a uniqueness violation and
\* leaves the table as it was.
C9_UniqueAsStated ==
    /\ UniqueRows
    /\ AddOfTakenName =>
         /\ table = before
         /\ resp.status = 500
         /\ resp.exc = <<"IntegrityError", "UNIQUE constraint failed", "name">>

\* C9 amended: in every interleaving ids and names stay unique, and an /add
\* whose name is already in the table fails with an integrity violation and
\* leaves the table as it was: the uniqueness violation of name when the
\* required fields are all present, a NOT NULL violation otherwise.
C9_UniqueAmended ==
    /\ UniqueRows
    /\ AddOfTakenName =>
         /\ table = before
         /\ resp.status = 500
         /\ Len(resp.exc) = 3
         /\ resp.exc[1] = "IntegrityError"
         /\ FormComplete(req.form) =>
              resp.exc = <<"IntegrityError", "UNIQUE constraint failed", "name">>
         /\ ~FormComplete(req.form) =>
              resp.exc[2] = "NOT NULL constraint failed"

C9_Witness ==
    /\ AddOfTakenName
    /\ resp.exc = <<"IntegrityError", "UNIQUE constraint failed", "name">>
    /\ Cardinality(table) = 2
    /\ inflight # EmptyBag

\* C10: once every request received has been answered, the table and the
\* responses are those of some serial execution of the same requests from the
\* empty table the server started with.
C10_Serializable ==
    (logging /\ inflight = EmptyBag) =>
        \E o \in SerialOutcomes({}, Requests(log)) :
            /\ o.table = table
            /\ o.log = log

=============================================================================
